---- MODULE Spec2Model ----
(***************************************************************************)
(* Model of naivebayes.py: MultiGaussNaiveBayesClassifier and the module   *)
(* level mixture builders.                                                 *)
(*                                                                         *)
(* Numbers.  A float is a tagged record: Fin(v) is the real v / SCALE      *)
(* (fixed point), NaN, PInf and NInf are numpy's nan, +inf and -inf.       *)
(* log, log10, exp and sqrt are computed in fixed point (piecewise linear  *)
(* between 1, 2, 5, 10 resp. between the powers of two).                   *)
(***************************************************************************)
EXTENDS Integers, Sequences, FiniteSets, TLC

\* ------------------------------------------------------------------ bounds
\* fixed-point resolution: 1.0 is SCALE
SCALE == 100
\* feature columns of the matrices given to fit and predict
NFeat == 1
\* rows of a training matrix
MaxRows == 2
\* rows of the training matrix of an instance that is fitted once
MaxRowsOnce == 3
\* rows of a prediction batch
MaxPredRows == 1
\* fit calls on one instance
MaxFits == 2
\* largest value the Monte-Carlo KL estimate takes in the model
MaxKL == 1
\* rows of a class slice given to _make_mixture on its own
MaxLen == 3
\* columns of a matrix given to a private method on its own
MaxCols == 2
\* initial components (Ngauss_init) of an instance built for _make_mixture
MaxGauss == 2
\* populated classes of a class_properties list given to the KL loop on its own
MaxClasses == 3

\* ------------------------------------------------------- program constants
\* defaults of __init__
nmin_multigauss_default == 10
Ngauss_init_default == 5
VB_iter_default == 1000
\* self.minprob = 1e-5, held as its decimal exponent: minprob = 10^-MinprobExp10
MinprobExp10 == 5

\* ------------------------------------------------------------------ floats
Fin(v) == [k |-> "fin", v |-> v]
NaN == [k |-> "nan", v |-> 0]
PInf == [k |-> "inf", v |-> 1]
NInf == [k |-> "inf", v |-> -1]
isfinite(a) == a.k = "fin"

\* a positive real below the resolution is held as the resolution
PosFix(v) == IF v < 1 THEN 1 ELSE v

\* ln(10), ln(2) and 2*pi in fixed point
LN10 == (2303 * SCALE) \div 1000
LN2 == (693 * SCALE) \div 1000
TWOPI == (6283 * SCALE) \div 1000

RECURSIVE Log10Fix(_)
\* log10 of a positive fixed-point number; a value below the resolution counts
\* as the resolution
Log10Fix(v) ==
  IF v < 1 THEN Log10Fix(1)
  ELSE IF v >= 10 * SCALE THEN SCALE + Log10Fix(v \div 10)
  ELSE IF v < SCALE THEN Log10Fix(v * 10) - SCALE
  ELSE IF v < 2 * SCALE THEN ((v - SCALE) * 301) \div 1000
  ELSE IF v < 5 * SCALE THEN (301 * SCALE) \div 1000 + ((v - 2 * SCALE) * 398) \div 3000
  ELSE (699 * SCALE) \div 1000 + ((v - 5 * SCALE) * 301) \div 5000

\* numpy.log of a positive fixed-point number
LogFix(v) == (Log10Fix(v) * LN10) \div SCALE

\* numpy.log10 on a float: nan for nan and for negatives, -inf at 0
log10(a) ==
  IF a.k = "nan" THEN NaN
  ELSE IF a.k = "inf" THEN (IF a.v > 0 THEN PInf ELSE NaN)
  ELSE IF a.v < 0 THEN NaN
  ELSE IF a.v = 0 THEN NInf
  ELSE Fin(Log10Fix(a.v))

RECURSIVE ExpFix(_)
\* numpy.exp of a fixed-point number d <= 0
ExpFix(d) ==
  IF d >= 0 THEN SCALE
  ELSE IF d <= -(20 * SCALE) THEN 0
  ELSE IF d <= -LN2 THEN ExpFix(d + LN2) \div 2
  ELSE SCALE + (d * (SCALE \div 2)) \div LN2

RECURSIVE SqrtSearch(_, _, _)
SqrtSearch(n, lo, hi) ==
  IF lo >= hi THEN lo
  ELSE LET mid == (lo + hi + 1) \div 2
       IN IF mid * mid <= n THEN SqrtSearch(n, mid, hi)
          ELSE SqrtSearch(n, lo, mid - 1)

\* floor of the square root of n >= 0
ISqrt(n) == SqrtSearch(n, 0, IF n < 46340 THEN n ELSE 46340)

RECURSIVE SumSeq(_)
SumSeq(s) == IF s = <<>> THEN 0 ELSE Head(s) + SumSeq(Tail(s))

RECURSIVE MaxSeq(_)
MaxSeq(s) ==
  IF Len(s) = 1 THEN s[1]
  ELSE LET m == MaxSeq(Tail(s)) IN IF s[1] >= m THEN s[1] ELSE m

\* scipy.misc.logsumexp over a non-empty sequence of finite fixed-point numbers
logsumexp(s) ==
  LET m == MaxSeq(s)
  IN m + LogFix(SumSeq([i \in 1..Len(s) |-> ExpFix(s[i] - m)]))

\* index of the first maximum (numpy argmax), 0-based as in Python
argmax(s) ==
  (CHOOSE i \in 1..Len(s) :
     /\ \A j \in 1..Len(s) : s[j] <= s[i]
     /\ \A j \in 1..(i - 1) : s[j] < s[i]) - 1

\* ---------------------------------------------------------------- mixtures
\* a column after col[numpy.isfinite(col)]: the fixed-point values
FiniteOf(col) ==
  LET f == SelectSeq(col, isfinite)
  IN [i \in 1..Len(f) |-> f[i].v]

\* col.mean() of a non-empty finite column
ColMean(c) == SumSeq(c) \div Len(c)

\* mean of the squared deviations from the mean (col.std() squared), in
\* SCALE^2 units
ColVarSq(c) ==
  LET m == ColMean(c)
  IN SumSeq([i \in 1..Len(c) |-> (c[i] - m) * (c[i] - m)]) \div Len(c)

\* col.std() of a non-empty finite column, in fixed point
ColStd(c) == ISqrt(ColVarSq(c))

\* the absent mixture (Python None)
None == [none |-> TRUE]

\* pypmc create_gaussian_mixture(means, covs): equal weights, one component
\* per (mean, cov)
create_gaussian_mixture(means, covs) ==
  [none |-> FALSE,
   components |-> [i \in 1..Len(means) |-> [mu |-> means[i], sigma |-> covs[i]]],
   weights |-> [i \in 1..Len(means) |-> SCALE \div Len(means)]]

RECURSIVE Insert(_, _)
Insert(x, s) ==
  IF s = <<>> THEN <<x>>
  ELSE IF x <= Head(s) THEN <<x>> \o s
  ELSE <<Head(s)>> \o Insert(x, Tail(s))

RECURSIVE SortedSeq(_)
SortedSeq(s) == IF s = <<>> THEN <<>> ELSE Insert(Head(s), SortedSeq(Tail(s)))

\* numpy.percentile(x, 100*j/K), linear interpolation between order statistics
Percentile(x, j, K) ==
  LET xs == SortedSeq(x)
      n == Len(xs)
      lo == (j * (n - 1)) \div K
      rem == (j * (n - 1)) % K
  IN IF lo + 1 >= n THEN xs[n]
     ELSE xs[lo + 1] + ((xs[lo + 2] - xs[lo + 1]) * rem) \div K

\* _make_single_mixture: one Gaussian per CDF segment; returns <<means, covs>>
_make_single_mixture(x, Ngauss_init) ==
  LET p == [j \in 1..(Ngauss_init + 1) |-> Percentile(x, j - 1, Ngauss_init)]
      w == (p[Ngauss_init + 1] - p[1]) \div 100
      mincov == PosFix((w * w) \div SCALE)
      means == [j \in 1..Ngauss_init |-> (p[j + 1] + p[j]) \div 2]
      gap == [j \in 1..Ngauss_init |-> ((p[j + 1] - p[j]) * (p[j + 1] - p[j])) \div SCALE]
      covs == [j \in 1..Ngauss_init |-> IF gap[j] > mincov THEN gap[j] ELSE mincov]
  IN <<means, covs>>

RECURSIVE SubSeqs(_)
\* the non-empty subsequences of s, order kept
SubSeqs(s) ==
  IF Len(s) = 1 THEN {s}
  ELSE LET r == SubSeqs(Tail(s))
       IN r \cup {<<Head(s)>>} \cup {<<Head(s)>> \o t : t \in r}

\* What GaussianInference(...).run(...); make_mixture() may return for an
\* initial guess: pypmc is not part of the repository, so the outcome is any
\* pruning of the guess to at least one component, the weights renormalised.
VBOutcomes(mix) ==
  {[none |-> FALSE,
    components |-> cs,
    weights |-> [i \in 1..Len(cs) |-> SCALE \div Len(cs)]] : cs \in SubSeqs(mix.components)}

\* _make_mixture_for_column: the set of mixtures the call may return
_make_mixture_for_column(column, Ngauss_init, nmin_multigauss, VB_iter) ==
  LET col == FiniteOf(column)
  IN IF Len(col) = 0 \/ ~(ColStd(col) > 0) THEN {None}
     ELSE IF Len(col) < nmin_multigauss \/ VB_iter = 0
       THEN {create_gaussian_mixture(<<ColMean(col)>>, <<ColStd(col)>>)}
     ELSE LET mc == _make_single_mixture(col, Ngauss_init)
          IN VBOutcomes(create_gaussian_mixture(mc[1], mc[2]))

\* ------------------------------------------------------------- aggregator
\* log(self.minprob)
LogMinprob == -(MinprobExp10 * LN10)

\* one component's term of logprob_col at the value x (lines 170-172):
\* -0.5*log(variances*2*pi) - 0.5*((x - means)**2 / variances) + log(weights)
ComponentLogprob(x, g, w) ==
  IF x.k = "nan" THEN NaN
  ELSE IF x.k = "inf" THEN NInf
  ELSE LET d == x.v - g.mu
           sq == (d * d) \div SCALE
       IN Fin(-(LogFix(PosFix((g.sigma * TWOPI) \div SCALE)) \div 2)
              - ((sq * SCALE) \div g.sigma) \div 2
              + LogFix(w))

\* logprob[:,i] for one row: zero where the class has no mixture, else the
\* logsumexp over the components
FeatureLogprob(mix, x) ==
  IF mix = None THEN Fin(0)
  ELSE LET terms == [c \in 1..Len(mix.components) |->
                       ComponentLogprob(x, mix.components[c], mix.weights[c])]
       IN IF x.k = "nan" THEN NaN
          ELSE IF x.k = "inf" THEN NInf
          ELSE Fin(logsumexp([c \in 1..Len(terms) |-> terms[c].v]))

\* logprob[~numpy.isfinite(logprob)] = 0
MissingToZero(lp) == IF isfinite(lp) THEN lp ELSE Fin(0)

\* logprob[logprob < log(self.minprob)] = log(self.minprob); a comparison
\* with nan is False, -inf is below every finite number
FloorSmall(lp) ==
  IF lp.k = "nan" THEN lp
  ELSE IF lp.k = "inf" THEN (IF lp.v < 0 THEN Fin(LogMinprob) ELSE lp)
  ELSE IF lp.v < LogMinprob THEN Fin(LogMinprob) ELSE lp

\* sum of a row of floats: nan wins, then the infinities
RowSum(r) ==
  IF \E i \in 1..Len(r) : r[i].k = "nan" THEN NaN
  ELSE IF \E i \in 1..Len(r) : r[i].k = "inf"
    THEN (IF \A i \in 1..Len(r) : r[i].k = "inf" => r[i].v > 0 THEN PInf
          ELSE IF \A i \in 1..Len(r) : r[i].k = "inf" => r[i].v < 0 THEN NInf
          ELSE NaN)
  ELSE Fin(SumSeq([i \in 1..Len(r) |-> r[i].v]))

\* a float plus a finite fixed-point number
AddFix(a, c) == IF isfinite(a) THEN Fin(a.v + c) ELSE a

\* the floor applied before the missing values are zeroed
evaluate_feature_dist_floor_first(feature_distributions, x, logprior) ==
  [r \in 1..Len(x) |->
     AddFix(RowSum([i \in 1..Len(feature_distributions) |->
                      MissingToZero(FloorSmall(
                        FeatureLogprob(feature_distributions[i], x[r][i])))]),
            logprior)]

\* _evaluate_feature_dist: one aggregated log-score per row of x
_evaluate_feature_dist(feature_distributions, x, logprior) ==
  [r \in 1..Len(x) |->
     AddFix(RowSum([i \in 1..Len(feature_distributions) |->
                      FloorSmall(MissingToZero(
                        FeatureLogprob(feature_distributions[i], x[r][i])))]),
            logprior)]

\* ------------------------------------------------------------- classifier
\* an optional value that is set
Some(v) == [none |-> FALSE, v |-> v]

VARIABLES
  \* constructor arguments kept as attributes
  all_labels, nmin_multigauss, Ngauss_init, VB_iter,
  \* the `parallel` argument of __init__ and the attribute self.parallel
  parallel_arg, parallel,
  \* names of the attributes fit and _predict have created on the instance
  attrs,
  islogvar, classes_, X_, y_, populated_columns_, class_properties_, KL_,
  nearest_, logproba_, surprise_,
  \* the running fit call: position and locals
  pc, XT, class_properties,
  \* the last call that ended: what it was given and what it gave
  result,
  \* history: fit calls begun, whether one returned, builder tasks given to
  \* the pool by the current or last fit or _make_mixture call
  fits, fitOK, submitted,
  \* a call of a module-level function or private method on its own:
  \* arguments and return value
  call, ret

config == <<all_labels, nmin_multigauss, Ngauss_init, VB_iter, parallel_arg, parallel>>
fitted == <<islogvar, classes_, X_, y_, populated_columns_, class_properties_, KL_>>
predicted == <<nearest_, logproba_, surprise_>>
locals == <<pc, XT, class_properties>>
vars == <<config, attrs, fitted, predicted, locals, result, fits, fitOK, submitted, call, ret>>

\* values of a cell of a feature matrix: missing, -1, 1, 10
Vals == {NaN, Fin(-SCALE), Fin(SCALE), Fin(10 * SCALE)}
\* class labels occurring in y, and the configured superset
YLabels == {0, 1}
AllLabels == <<0, 1, 2>>
\* the pool handle a caller passes as `parallel`
Pool == Some("pool")

Matrices(n, m) == [1..n -> [1..m -> Vals]]
TrainSets(maxrows) == UNION {Matrices(n, NFeat) \X [1..n -> YLabels] : n \in 1..maxrows}
PredictSets == UNION {Matrices(n, NFeat) : n \in 1..MaxPredRows}

NoCall == [fn |-> "none"]

\* __init__: the attributes it sets; the `parallel` argument is not stored
\* (self.parallel = None)
InitInstance(labels, nmin, K, iters, par) ==
  /\ all_labels = labels
  /\ nmin_multigauss = nmin
  /\ Ngauss_init = K
  /\ VB_iter = iters
  /\ parallel_arg = par
  /\ parallel = None
  /\ islogvar = None
  /\ attrs = {}
  /\ classes_ = <<>> /\ X_ = <<>> /\ y_ = <<>> /\ populated_columns_ = <<>>
  /\ class_properties_ = <<>> /\ KL_ = <<>>
  /\ nearest_ = <<>> /\ logproba_ = <<>> /\ surprise_ = <<>>
  /\ pc = "idle" /\ XT = <<>> /\ class_properties = <<>>
  /\ result = NoCall
  /\ fits = 0 /\ fitOK = FALSE /\ submitted = 0

\* an instance built with the default parameters but all_labels
Init ==
  /\ \E labels \in {None, Some(AllLabels)} :
       InitInstance(labels, nmin_multigauss_default, Ngauss_init_default, VB_iter_default, None)
  /\ call = NoCall /\ ret = NoCall

RECURSIVE SetToSeq(_)
\* the elements of a finite set of integers in increasing order
SetToSeq(S) ==
  IF S = {} THEN <<>>
  ELSE LET m == CHOOSE x \in S : \A y \in S : x <= y
       IN <<m>> \o SetToSeq(S \ {m})

\* sklearn unique_labels(y): the sorted distinct labels
unique_labels(y) == SetToSeq({y[i] : i \in 1..Len(y)})

\* X <= 0 on a float (False for nan)
LeqZero(a) == (a.k = "fin" /\ a.v <= 0) \/ (a.k = "inf" /\ a.v < 0)

\* ~(X <= 0).any(axis=0): the per-feature log-transform flags of a matrix
LogFlags(X) == [f \in 1..Len(X[1]) |-> ~(\E r \in 1..Len(X) : LeqZero(X[r][f]))]

\* numpy.where(self.islogvar, log10(X), X)
Transform(flags, X) ==
  [r \in 1..Len(X) |-> [f \in 1..Len(X[r]) |-> IF flags[f] THEN log10(X[r][f]) ELSE X[r][f]]]

\* XT[mask,:] as the list of its columns (x.transpose())
ColumnsOf(M, rows) ==
  [f \in 1..Len(M[1]) |-> [k \in 1..Len(rows) |-> M[rows[k]][f]]]

RECURSIVE ListsOf(_)
\* the lists r with r[i] one of outs[i], for a sequence outs of sets
ListsOf(outs) ==
  IF outs = <<>> THEN {<<>>}
  ELSE {<<h>> \o t : h \in Head(outs), t \in ListsOf(Tail(outs))}

\* joblib's Parallel.__call__ on a list of tasks: the tasks end in any order
\* and the results are returned in the order the tasks were given
ParallelCall(tasks) == ListsOf(tasks)

\* _make_mixture on the columns cols of one class: the lists of mixtures it
\* may return
_make_mixture(cols, par, K, nmin, iters) ==
  LET tasks == [i \in 1..Len(cols) |-> _make_mixture_for_column(cols[i], K, nmin, iters)]
  IN IF par = None THEN ListsOf(tasks) ELSE ParallelCall(tasks)

\* builder tasks _make_mixture gives to the pool for the columns cols
PoolTasks(cols, par) == IF par = None THEN 0 ELSE Len(cols)

\* the rows r of y with y[r] = label (mask = y == label), in order
MaskRows(y, label) ==
  LET F[n \in 0..Len(y)] ==
        IF n = 0 THEN <<>>
        ELSE IF y[n] = label THEN Append(F[n - 1], n) ELSE F[n - 1]
  IN F[Len(y)]

\* the positions i (1-based) of the classes with at least one row of y
Populated(classes, y) ==
  LET F[n \in 0..Len(classes)] ==
        IF n = 0 THEN <<>>
        ELSE IF MaskRows(y, classes[n]) # <<>> THEN Append(F[n - 1], n) ELSE F[n - 1]
  IN F[Len(classes)]

\* the class loop of fit (lines 271-283): the lists class_properties it may
\* build, one (label, feature_distributions) per populated class
ClassLoop(classes, y, M, par, K, nmin, iters) ==
  LET pop == Populated(classes, y)
      outs == [k \in 1..Len(pop) |->
                 _make_mixture(ColumnsOf(M, MaskRows(y, classes[pop[k]])), par, K, nmin, iters)]
  IN {[k \in 1..Len(pop) |-> [label |-> classes[pop[k]], feature_distributions |-> fds[k]]] :
        fds \in ListsOf(outs)}

\* pool tasks submitted by the class loop
ClassLoopTasks(classes, y, M, par) ==
  LET pop == Populated(classes, y)
  IN SumSeq([k \in 1..Len(pop) |-> PoolTasks(ColumnsOf(M, MaskRows(y, classes[pop[k]])), par)])

\* values the importance-sampling KL estimate takes in the model
KLVals == 0..MaxKL

\* _evaluate_information_single: the KL_vector for two classes' mixtures,
\* est[i] being what the sampler gives for feature i; a feature one of the
\* classes has no mixture for is skipped (continue)
_evaluate_information_single(features1, features2, est) ==
  LET n == IF Len(features1) < Len(features2) THEN Len(features1) ELSE Len(features2)
      F[i \in 0..n] ==
        IF i = 0 THEN <<>>
        ELSE IF features1[i] = None \/ features2[i] = None THEN F[i - 1]
        ELSE Append(F[i - 1], est[i])
  IN F[n]

\* the KL loop of fit (lines 286-295) over class_properties cp, est[a][b][i]
\* being the sampler's estimate for classes a, b and feature i
KLLoop(cp, est) ==
  [a \in 1..Len(cp) |->
     LET F[b \in 0..Len(cp)] ==
           IF b = 0 THEN <<>>
           ELSE IF cp[b].label <= cp[a].label THEN F[b - 1]
           ELSE Append(F[b - 1],
                       _evaluate_information_single(cp[a].feature_distributions,
                                                    cp[b].feature_distributions,
                                                    est[a][b]))
     IN F[Len(cp)]]

\* the estimates the samplers may give: one value per sampled (a, b, feature),
\* and 0 standing for the places no sampler runs at
Estimates(cp) ==
  ListsOf([a \in 1..Len(cp) |->
    ListsOf([b \in 1..Len(cp) |->
      ListsOf([i \in 1..Len(cp[a].feature_distributions) |->
        IF \/ cp[b].label <= cp[a].label
           \/ cp[a].feature_distributions[i] = None
           \/ cp[b].feature_distributions[i] = None
          THEN {0} ELSE KLVals])])])

\* fit, lines 258-269: validation passed; the label set, the training data
\* and (only when not yet set) the log flags are stored, XT is computed
FitBegin(data, maxfits) ==
  /\ pc = "idle" /\ fits < maxfits
  /\ \E d \in data :
       LET X == d[1]
           y == d[2]
           flags == IF islogvar = None THEN Some(LogFlags(X)) ELSE islogvar
       IN /\ classes_' = (IF all_labels = None THEN unique_labels(y) ELSE all_labels.v)
          /\ X_' = X
          /\ y_' = y
          /\ islogvar' = flags
          /\ XT' = Transform(flags.v, X)
  /\ attrs' = attrs \cup {"classes_", "X_", "y_"}
  /\ pc' = "mixtures"
  /\ fits' = fits + 1
  /\ submitted' = 0
  /\ UNCHANGED <<config, populated_columns_, class_properties_, KL_, predicted,
                 class_properties, result, fitOK, call, ret>>

\* fit, lines 271-284: the class loop and populated_columns_
FitMixtures ==
  /\ pc = "mixtures"
  /\ class_properties' \in ClassLoop(classes_, y_, XT, parallel, Ngauss_init, nmin_multigauss, VB_iter)
  /\ populated_columns_' = [k \in 1..Len(Populated(classes_, y_)) |-> Populated(classes_, y_)[k] - 1]
  /\ submitted' = submitted + ClassLoopTasks(classes_, y_, XT, parallel)
  /\ attrs' = attrs \cup {"populated_columns_"}
  /\ pc' = "kl"
  /\ UNCHANGED <<config, islogvar, classes_, X_, y_, class_properties_, KL_, predicted,
                 XT, result, fits, fitOK, call, ret>>

\* fit, lines 286-298: the KL loop, then KL_ and class_properties_ are stored
\* and fit returns
FitKL ==
  /\ pc = "kl"
  /\ \E est \in Estimates(class_properties) : KL_' = KLLoop(class_properties, est)
  /\ class_properties_' = class_properties
  /\ attrs' = attrs \cup {"KL_", "class_properties_"}
  /\ pc' = "idle" /\ XT' = <<>> /\ class_properties' = <<>>
  /\ result' = [fn |-> "fit", outcome |-> "ok"]
  /\ fitOK' = TRUE
  /\ UNCHANGED <<config, islogvar, classes_, X_, y_, populated_columns_, predicted,
                 fits, submitted, call, ret>>

\* fit leaves with an exception raised inside the class loop (the assert of
\* _make_mixture, the variational fit) or inside the KL loop (the sampler, the
\* report line): nothing after the raising line runs
FitRaise ==
  /\ pc \in {"mixtures", "kl"}
  /\ pc' = "idle" /\ XT' = <<>> /\ class_properties' = <<>>
  /\ result' = [fn |-> "fit", outcome |-> "raised"]
  /\ UNCHANGED <<config, attrs, fitted, predicted, fits, fitOK, submitted, call, ret>>

PredictKinds == {"predict", "predict_proba", "predict_log_proba"}

\* what _predict and its caller do to everything but the fitted state, for
\* the batch X: check_is_fitted on X_ and y_, the log-prior, the transform,
\* one aggregator call per stored class profile, argmax and normalisation
PredictEffects(kind, X) ==
  LET logprior == -LogFix(Len(classes_) * SCALE)
      XTp == Transform(islogvar.v, X)
      scores == [i \in 1..Len(class_properties_) |->
                   _evaluate_feature_dist(class_properties_[i].feature_distributions, XTp, logprior)]
      Xlogprobs == [r \in 1..Len(X) |-> [i \in 1..Len(class_properties_) |-> scores[i][r].v]]
      logprobany == [r \in 1..Len(X) |-> logsumexp(Xlogprobs[r])]
      nearest == [r \in 1..Len(X) |-> argmax(Xlogprobs[r])]
      logproba == [r \in 1..Len(X) |->
                     [i \in 1..Len(class_properties_) |-> Xlogprobs[r][i] - logprobany[r]]]
      value == IF kind = "predict" THEN nearest
               ELSE IF kind = "predict_log_proba" THEN logproba
               ELSE [r \in 1..Len(X) |-> [i \in 1..Len(class_properties_) |-> ExpFix(logproba[r][i])]]
  IN IF ~({"X_", "y_"} \subseteq attrs)
       THEN /\ result' = [fn |-> kind, X |-> X, outcome |-> "NotFittedError", transformed |-> FALSE]
            /\ UNCHANGED <<attrs, predicted>>
     ELSE IF "class_properties_" \notin attrs
       THEN /\ result' = [fn |-> kind, X |-> X, outcome |-> "AttributeError", transformed |-> TRUE]
            /\ UNCHANGED <<attrs, predicted>>
     ELSE IF class_properties_ = <<>>
       THEN /\ result' = [fn |-> kind, X |-> X, outcome |-> "ValueError", transformed |-> TRUE]
            /\ UNCHANGED <<attrs, predicted>>
     ELSE /\ nearest_' = nearest
          /\ logproba_' = logproba
          /\ surprise_' = logprobany
          /\ attrs' = attrs \cup {"nearest_", "logproba_", "surprise_"}
          /\ result' = [fn |-> kind, X |-> X, outcome |-> "ok", transformed |-> TRUE,
                        logprior |-> logprior, value |-> value]

\* a prediction that recomputes the log flags from the batch it is given
predict_resetting_flags(kind, X) ==
  /\ PredictEffects(kind, X)
  /\ islogvar' = (IF islogvar = None THEN islogvar ELSE Some(LogFlags(X)))
  /\ UNCHANGED <<classes_, X_, y_, populated_columns_, class_properties_, KL_>>

\* _predict(X) and the return of its caller: the fitted state is only read
_predict(kind, X) ==
  /\ PredictEffects(kind, X)
  /\ UNCHANGED fitted

PredictCall(kind) ==
  /\ pc = "idle"
  /\ \E X \in PredictSets : _predict(kind, X)
  /\ UNCHANGED <<config, locals, fits, fitOK, submitted, call, ret>>

predict == PredictCall("predict")
predict_proba == PredictCall("predict_proba")
predict_log_proba == PredictCall("predict_log_proba")

Next ==
  \/ FitBegin(TrainSets(MaxRows), MaxFits)
  \/ FitMixtures
  \/ FitKL
  \/ FitRaise
  \/ predict
  \/ predict_proba
  \/ predict_log_proba

Spec == Init /\ [][Next]_vars

\* an instance that is fitted at most once, on a larger training matrix
NextOnce ==
  \/ FitBegin(TrainSets(MaxRowsOnce), 1)
  \/ FitMixtures
  \/ FitKL
  \/ FitRaise
  \/ predict
  \/ predict_proba
  \/ predict_log_proba

SpecOnce == Init /\ [][NextOnce]_vars

\* ------------------------------------------- _make_mixture called on its own
\* the class slices XT[mask,:] given to _make_mixture
MixSlices(maxlen, maxcols) == UNION {Matrices(n, m) : n \in 1..maxlen, m \in 1..maxcols}

\* an instance built with any of the parameters the builder reads, and the
\* arguments of one _make_mixture call
InitMix ==
  /\ \E nmin \in {2, nmin_multigauss_default}, K \in 1..MaxGauss,
        iters \in {0, VB_iter_default}, par \in {None, Pool} :
       InitInstance(None, nmin, K, iters, par)
  /\ call \in {[fn |-> "_make_mixture", x |-> x] : x \in MixSlices(MaxLen, MaxCols)}
  /\ ret = NoCall

\* self._make_mixture(x) with colnames = None
MakeMixtureCall ==
  /\ call.fn = "_make_mixture" /\ ret = NoCall
  /\ LET cols == ColumnsOf(call.x, [r \in 1..Len(call.x) |-> r])
     IN /\ \E v \in _make_mixture(cols, parallel, Ngauss_init, nmin_multigauss, VB_iter) :
             ret' = [value |-> v]
        /\ submitted' = PoolTasks(cols, parallel)
  /\ UNCHANGED <<config, attrs, fitted, predicted, locals, result, fits, fitOK, call>>

SpecMix == InitMix /\ [][MakeMixtureCall]_vars

\* ---------------------------------- _evaluate_feature_dist called on its own
\* mixtures a class may hold for a feature: absent, or any of the mixtures of
\* a narrow component at 0 and a wide one at 10
AggMixtures ==
  LET a == [mu |-> 0, sigma |-> SCALE \div 2]
      b == [mu |-> 10 * SCALE, sigma |-> 4 * SCALE]
  IN {None,
      [none |-> FALSE, components |-> <<a>>, weights |-> <<SCALE>>],
      [none |-> FALSE, components |-> <<b>>, weights |-> <<SCALE>>],
      [none |-> FALSE, components |-> <<a, b>>, weights |-> <<SCALE \div 2, SCALE \div 2>>]}

\* values of a cell of the transformed batch: those of Vals, 0, and the
\* infinities log10 gives
AggVals == Vals \cup {Fin(0), PInf, NInf}

\* the log-priors -log(N) of 1 to 3 classes
AggPriors == {-LogFix(n * SCALE) : n \in 1..3}

InitAgg ==
  /\ InitInstance(None, nmin_multigauss_default, Ngauss_init_default, VB_iter_default, None)
  /\ call \in {[fn |-> "_evaluate_feature_dist", feature_distributions |-> fd,
                x |-> <<row>>, logprior |-> lp] :
                 fd \in UNION {[1..m -> AggMixtures] : m \in 1..MaxCols},
                 row \in UNION {[1..m -> AggVals] : m \in 1..MaxCols},
                 lp \in AggPriors}
  /\ Len(call.feature_distributions) = Len(call.x[1])
  /\ ret = NoCall

\* self._evaluate_feature_dist(feature_distributions, x, logprior)
EvaluateCall ==
  /\ call.fn = "_evaluate_feature_dist" /\ ret = NoCall
  /\ ret' = [value |-> _evaluate_feature_dist(call.feature_distributions, call.x, call.logprior)]
  /\ UNCHANGED <<config, attrs, fitted, predicted, locals, result, fits, fitOK, submitted, call>>

SpecAgg == InitAgg /\ [][EvaluateCall]_vars

\* ------------------------------------------- the KL loop of fit on its own
\* what the class loop may have left for one feature of one class
KLMixtures == {None, create_gaussian_mixture(<<0>>, <<SCALE>>)}

RECURSIVE Injective(_, _)
\* the sequences of n distinct elements of S
Injective(S, n) ==
  IF n = 0 THEN {<<>>}
  ELSE {Append(t, x) : t \in Injective(S, n - 1), x \in S} \cap
       {q \in [1..n -> S] : \A i, j \in 1..n : i # j => q[i] # q[j]}

\* lists class_properties of 2..MaxClasses populated classes, each with a
\* mixture or None per feature, in any order of the labels
KLClassLists(maxclasses, maxcols) ==
  UNION {{[k \in 1..n |-> [label |-> ls[k], feature_distributions |-> fds[k]]] :
            ls \in Injective(0..(maxclasses - 1), n),
            fds \in [1..n -> [1..maxcols -> KLMixtures]]} : n \in 2..maxclasses}

InitKL ==
  /\ InitInstance(None, nmin_multigauss_default, Ngauss_init_default, VB_iter_default, None)
  /\ \E cp \in KLClassLists(MaxClasses, MaxCols) : \E est \in Estimates(cp) :
       call = [fn |-> "KL", class_properties |-> cp, est |-> est]
  /\ ret = NoCall

\* lines 286-296 of fit for the class_properties of the call
KLCall ==
  /\ call.fn = "KL" /\ ret = NoCall
  /\ ret' = [value |-> KLLoop(call.class_properties, call.est)]
  /\ UNCHANGED <<config, attrs, fitted, predicted, locals, result, fits, fitOK, submitted, call>>

SpecKL == InitKL /\ [][KLCall]_vars

\* ------------------------------------------------------------------ claims
\* the set of the labels in classes_
ClassLabelSet == {classes_[i] : i \in 1..Len(classes_)}

\* the aggregated log-score of stored class profile i for row r of batch X
ScoreOf(i, X, r) ==
  _evaluate_feature_dist(class_properties_[i].feature_distributions,
                         Transform(islogvar.v, X), 0)[r].v

\* C1: on a fitted classifier predict(X) returns, for every row, the label
\* (an element of the fitted class label set) of the class whose aggregated
\* log-score is maximal for that row, whatever the label values are.
C1_PredictReturnsLabel ==
  (result.fn = "predict" /\ result.outcome = "ok") =>
    \A r \in 1..Len(result.X) :
      /\ result.value[r] \in ClassLabelSet
      /\ \E i \in 1..Len(class_properties_) :
           /\ class_properties_[i].label = result.value[r]
           /\ \A j \in 1..Len(class_properties_) :
                ScoreOf(j, result.X, r) <= ScoreOf(i, result.X, r)

\* C2: while no fit call has returned (never fitted, or every fit raised
\* partway through), a prediction fails with the not-fitted condition before
\* any transform or log-likelihood evaluation.
C2_NotFittedBeforeFit ==
  (~fitOK /\ result.fn \in PredictKinds) =>
    (result.outcome = "NotFittedError" /\ ~result.transformed)

\* every observed (non-missing) value of column f of X is strictly positive
AllPositive(X, f) ==
  \A r \in 1..Len(X) : X[r][f].k = "nan" \/ (X[r][f].k = "fin" /\ X[r][f].v > 0)

\* C3: after a fit call has returned, the log-transform flags, the class
\* profiles and the KL matrix are those the most recent (X, y) alone
\* determines: the flag of feature f is true exactly when every observed value
\* of column f of the most recent X is strictly positive, and the profiles are
\* those built from that X transformed with those flags.
C3_RefitOverwrites ==
  (pc = "idle" /\ result.fn = "fit" /\ result.outcome = "ok") =>
    /\ islogvar = Some([f \in 1..NFeat |-> AllPositive(X_, f)])
    /\ class_properties_ \in
         ClassLoop(classes_, y_, Transform([f \in 1..NFeat |-> AllPositive(X_, f)], X_),
                   parallel, Ngauss_init, nmin_multigauss, VB_iter)
    /\ \E est \in Estimates(class_properties_) : KL_ = KLLoop(class_properties_, est)

\* the sample variance of a non-empty finite column, in fixed point
ColVar(c) == ColVarSq(c) \div SCALE

\* C4: the builder, after dropping non-finite entries, returns absent when no
\* entry remains or the sample variance is zero; otherwise, when fewer than
\* nmin_multigauss entries remain or VB_iter is 0, a mixture of exactly one
\* component with the sample mean and the sample variance; otherwise the
\* result of the quantile partition followed by the variational fit.
C4_BuilderPolicy ==
  (call.fn = "_make_mixture" /\ ret # NoCall) =>
    \A i \in 1..Len(call.x[1]) :
      LET col == FiniteOf([r \in 1..Len(call.x) |-> call.x[r][i]])
          mix == ret.value[i]
      IN IF Len(col) = 0 \/ ColVarSq(col) = 0 THEN mix = None
         ELSE IF Len(col) < nmin_multigauss \/ VB_iter = 0
           THEN /\ mix # None
                /\ Len(mix.components) = 1
                /\ mix.components[1].mu = ColMean(col)
                /\ mix.components[1].sigma = ColVar(col)
         ELSE LET mc == _make_single_mixture(col, Ngauss_init)
              IN mix \in VBOutcomes(create_gaussian_mixture(mc[1], mc[2]))

\* C5: the log-prior _predict passes to the aggregator is -log(N), N being the
\* number of classes with at least one training row (the number of stored
\* class profiles), also when all_labels names classes absent from y.
C5_UniformPrior ==
  (result.fn \in PredictKinds /\ result.outcome = "ok") =>
    /\ Cardinality({c \in ClassLabelSet : \E r \in 1..Len(y_) : y_[r] = c}) = Len(class_properties_)
    /\ result.logprior = -LogFix(Len(class_properties_) * SCALE)

\* C6: with a pool handle given as `parallel`, building the mixtures of a
\* class gives exactly one builder task per feature column to the pool, and
\* the list returned has the mixture of column i at position i.
C6_PoolUsed ==
  (call.fn = "_make_mixture" /\ ret # NoCall /\ parallel_arg # None) =>
    /\ submitted = Len(call.x[1])
    /\ \A i \in 1..Len(call.x[1]) :
         ret.value[i] \in _make_mixture_for_column([r \in 1..Len(call.x) |-> call.x[r][i]],
                                                   Ngauss_init, nmin_multigauss, VB_iter)

\* C7: a predict, predict_proba or predict_log_proba call (the steps taken
\* while no fit is running) leaves the class label set, the stored class
\* profiles, the log-transform flags and the KL matrix unchanged.
C7_PredictFrame ==
  [][(pc = "idle" /\ pc' = "idle") =>
       /\ classes_' = classes_
       /\ class_properties_' = class_properties_
       /\ islogvar' = islogvar
       /\ KL_' = KL_]_vars

\* a prediction has succeeded on a fitted instance whose flag for feature 1
\* is set, for a batch with a non-positive value in that feature
C7_Witness ==
  /\ fitOK /\ pc = "idle"
  /\ result.fn = "predict_proba" /\ result.outcome = "ok"
  /\ islogvar = Some([f \in 1..NFeat |-> TRUE])
  /\ result.X[1][1] = Fin(-SCALE)
  /\ \E i \in 1..Len(class_properties_) : class_properties_[i].feature_distributions[1] # None

\* C8: for a row whose feature values are all non-finite the aggregator
\* returns exactly the log-prior it was given, whatever mixtures the class
\* has: every feature contributes exactly zero, floor included.
C8_AllMissingRow ==
  (call.fn = "_evaluate_feature_dist" /\ ret # NoCall) =>
    \A r \in 1..Len(call.x) :
      (\A i \in 1..Len(call.x[r]) : ~isfinite(call.x[r][i])) =>
        ret.value[r] = Fin(call.logprior)

\* the aggregator has returned for a row of non-finite values, a -inf among
\* them, and a class with a present and an absent mixture
C8_Witness ==
  /\ call.fn = "_evaluate_feature_dist" /\ ret # NoCall
  /\ \A i \in 1..Len(call.x[1]) : ~isfinite(call.x[1][i])
  /\ \E i \in 1..Len(call.x[1]) :
       call.x[1][i] = NInf /\ call.feature_distributions[i] # None
  /\ \E i \in 1..Len(call.x[1]) : call.feature_distributions[i] = None

\* C9: during fit nothing of the fitted state (label set, training data
\* attributes, flags, populated indices, profiles, KL matrix) is written
\* before the class loop has ended: the step of fit that ends at the start
\* of the class loop, every per-class fit still pending, changes none of it.
C9_WritesAfterClassLoop ==
  [][(pc = "idle" /\ pc' = "mixtures") =>
       /\ attrs' = attrs
       /\ <<classes_, X_, y_, islogvar>>' = <<classes_, X_, y_, islogvar>>
       /\ <<populated_columns_, class_properties_, KL_>>' =
            <<populated_columns_, class_properties_, KL_>>]_vars

\* the positions b of the classes of cp with a label above that of class a
Partners(cp, a) ==
  LET F[b \in 0..Len(cp)] ==
        IF b = 0 THEN <<>>
        ELSE IF cp[b].label > cp[a].label THEN Append(F[b - 1], b) ELSE F[b - 1]
  IN F[Len(cp)]

\* C10: the KL result holds, for every pair of populated classes l1 < l2 and
\* no other pair, one entry per feature: the estimate where both classes have
\* a mixture for the feature and an absent marker where one lacks it, so that
\* the entry at position f is that of feature f.
C10_KLPerFeature ==
  (call.fn = "KL" /\ ret # NoCall) =>
    LET cp == call.class_properties
    IN /\ Len(ret.value) = Len(cp)
       /\ \A a \in 1..Len(cp) :
            /\ Len(ret.value[a]) = Len(Partners(cp, a))
            /\ \A k \in 1..Len(Partners(cp, a)) :
                 LET b == Partners(cp, a)[k]
                     vec == ret.value[a][k]
                 IN /\ Len(vec) = Len(cp[a].feature_distributions)
                    /\ \A f \in 1..Len(vec) :
                         IF /\ cp[a].feature_distributions[f] # None
                            /\ cp[b].feature_distributions[f] # None
                           THEN vec[f] = call.est[a][b][f]
                           ELSE vec[f] = None

====
